---------------------------- MODULE Spec2Model ----------------------------
(***************************************************************************)
(* The PatientConsultation record of care/facility/models/                 *)
(* patient_consultation.py: the consultation table with its foreign keys,  *)
(* its two check constraints, its field validators and its CSV             *)
(* pretty-printers, as a state machine over the tables it touches.         *)
(*                                                                         *)
(* A nullable reference, date or code holds NULL.  A nullable number holds *)
(* None (the empty tuple) or Some(v) (the one-element tuple), so that a    *)
(* number and "no number" can be told apart.  Heights and weights are      *)
(* floats in the source; whole numbers stand for them here.                *)
(***************************************************************************)
EXTENDS Integers, Sequences, FiniteSets, TLC

VARIABLES
    patients,       \* PatientRegistration table: patient id -> its current facility
    facilities,     \* Facility table: the ids present
    users,          \* User table: the ids present
    consultations,  \* PatientConsultation table: pk -> row
    outcome,        \* the last request handled and how it ended
    csvIn,          \* the (category, suggestion) codes handed to the CSV export
    csvOut          \* the labels the export has produced so far

vars == <<patients, facilities, users, consultations, outcome, csvIn, csvOut>>

-----------------------------------------------------------------------------
(* Bounds of the model *)

MaxConsultations == 2
MaxLines == 2
MaxCsvRows == 2

PatientIds == {"p1", "p2"}
FacilityIds == {"f1", "f2"}
UserIds == {"u1", "u2"}
ConsultationIds == 1..MaxConsultations

NULL == "NULL"
None == <<>>
Some(v) == <<v>>

-----------------------------------------------------------------------------
(* Choice lists *)

SuggestionChoices_HI == "HI"
SuggestionChoices_A == "A"
SuggestionChoices_R == "R"
SuggestionChoices_OP == "OP"
SuggestionChoices_DC == "DC"

SUGGESTION_CHOICES ==
    << <<SuggestionChoices_HI, "HOME ISOLATION">>,
       <<SuggestionChoices_A, "ADMISSION">>,
       <<SuggestionChoices_R, "REFERRAL">>,
       <<SuggestionChoices_OP, "OP CONSULTATION">>,
       <<SuggestionChoices_DC, "DOMICILIARY CARE">> >>

\* The category codes and labels of care.facility.models (outside this file).
CATEGORY_CHOICES ==
    << <<"Mild", "Category-A">>,
       <<"Moderate", "Category-B">>,
       <<"Severe", "Category-C">> >>

\* reverse_choices(choices): the dict built by output[choice[0]] = choice[1],
\* a later pair overwriting an earlier one with the same code.
RECURSIVE reverse_choices(_)
reverse_choices(choices) ==
    IF choices = <<>> THEN <<>>
    ELSE LET n == Len(choices)
             rest == reverse_choices(SubSeq(choices, 1, n - 1))
         IN (choices[n][1] :> choices[n][2]) @@ rest

REVERSE_SUGGESTION_CHOICES == reverse_choices(SUGGESTION_CHOICES)
REVERSE_SYMPTOM_CATEGORY_CHOICES == reverse_choices(CATEGORY_CHOICES)

\* dict.get(key, default)
DictGet(dict, key, default) ==
    IF key \in DOMAIN dict THEN dict[key] ELSE default

\* A printer that hands an unrecognised code back instead of the placeholder.
CSV_MAKE_PRETTY_suggestion_echo(x) ==
    DictGet(REVERSE_SUGGESTION_CHOICES, x, x)

CSV_MAKE_PRETTY_category(x) ==
    DictGet(REVERSE_SYMPTOM_CATEGORY_CHOICES, x, "-")
CSV_MAKE_PRETTY_suggestion(x) ==
    DictGet(REVERSE_SUGGESTION_CHOICES, x, "-")

-----------------------------------------------------------------------------
(* The row of a consultation: the fields that carry a constraint, a        *)
(* validator or a foreign key.  The free-text and flag fields take any     *)
(* value and no rule reads them.                                           *)

\* The field defaults: referred_to, admission_date and the user references
\* default to null, admitted to False, the measurements to None, lines to [].
DefaultRow(patient, facility, suggestion) ==
    [ patient |-> patient, facility |-> facility, suggestion |-> suggestion,
      referred_to |-> NULL, admitted |-> FALSE, admission_date |-> NULL,
      assigned_to |-> NULL, created_by |-> NULL, last_edited_by |-> NULL,
      height |-> None, weight |-> None, cpk_mb |-> None,
      cuff_pressure |-> None, ett_tt |-> None, lines |-> <<>> ]

-----------------------------------------------------------------------------
(* Field validators *)

HeightMin == 0
WeightMin == 0
CpkMbMin == 0
CpkMbMax == 100
CuffPressureMin == 0
EttTtMin == 3
EttTtMax == 10

\* MinValueValidator(limit): the value is refused when value < limit.
MinValueValidator(limit, value) == ~(value < limit)
\* A maximum that refuses the limit itself.
MaxValueValidator_exclusive(limit, value) == ~(value >= limit)
\* MaxValueValidator(limit): the value is refused when value > limit.
MaxValueValidator(limit, value) == ~(value > limit)

\* A field's validators run on a value that is present; null is passed by.
HeightValid(v) == v = None \/ MinValueValidator(HeightMin, v[1])
WeightValid(v) == v = None \/ MinValueValidator(WeightMin, v[1])
CpkMbValid(v) ==
    v = None \/ (MinValueValidator(CpkMbMin, v[1]) /\ MaxValueValidator(CpkMbMax, v[1]))
CuffPressureValid(v) == v = None \/ MinValueValidator(CuffPressureMin, v[1])
EttTtValid(v) ==
    v = None \/ (MinValueValidator(EttTtMin, v[1]) /\ MaxValueValidator(EttTtMax, v[1]))

\* LINES_CATHETERS (care.facility.models.json_schema.consultation): the keys
\* every entry of lines must carry.  An entry is the set of keys it has.
LINES_CATHETERS_required == {"start_date", "type", "site"}
LineEntryConforms(entry) == LINES_CATHETERS_required \subseteq entry
\* JSONFieldSchemaValidator(LINES_CATHETERS)
JSONFieldSchemaValidator(lines) ==
    \A i \in 1..Len(lines) : LineEntryConforms(lines[i])
\* A check of lines that looks at its first entry alone.
LinesValid_first(lines) == lines = <<>> \/ LineEntryConforms(lines[1])
\* lines: validators=[JSONFieldSchemaValidator(LINES_CATHETERS)]
LinesValid(lines) == JSONFieldSchemaValidator(lines)

\* choices=SUGGESTION_CHOICES: the code must be one of the listed ones.
SuggestionValid(code) ==
    \E i \in 1..Len(SUGGESTION_CHOICES) : SUGGESTION_CHOICES[i][1] = code

\* Validation of a submitted row: every declared validator, each on its field.
FieldsValid(row) ==
    /\ SuggestionValid(row.suggestion)
    /\ HeightValid(row.height)
    /\ WeightValid(row.weight)
    /\ CpkMbValid(row.cpk_mb)
    /\ CuffPressureValid(row.cuff_pressure)
    /\ EttTtValid(row.ett_tt)
    /\ LinesValid(row.lines)

-----------------------------------------------------------------------------
(* What the database enforces on an INSERT or UPDATE of a row *)

\* patient, facility and suggestion are declared without null=True.
NotNullOk(row) ==
    /\ row.patient # NULL
    /\ row.facility # NULL
    /\ row.suggestion # NULL

ForeignKeysOk(row) ==
    /\ row.patient \in DOMAIN patients
    /\ row.facility \in facilities
    /\ row.referred_to \in facilities \cup {NULL}
    /\ row.assigned_to \in users \cup {NULL}
    /\ row.created_by \in users \cup {NULL}
    /\ row.last_edited_by \in users \cup {NULL}

\* The referral check reading the facility column instead of referred_to.
if_referral_suggested_facility(row) ==
    ~(row.suggestion = SuggestionChoices_R) \/ row.facility # NULL

\* ~Q(suggestion=SuggestionChoices.R) | Q(referred_to__isnull=False)
if_referral_suggested(row) ==
    ~(row.suggestion = SuggestionChoices_R) \/ row.referred_to # NULL

\* The admission check with its first test turned round.
if_admitted_inverted(row) ==
    row.admitted = TRUE \/ row.admission_date # NULL

\* Q(admitted=False) | Q(admission_date__isnull=False)
if_admitted(row) ==
    row.admitted = FALSE \/ row.admission_date # NULL

CheckConstraintsOk(row) == if_referral_suggested(row) /\ if_admitted(row)

DbAccepts(row) == NotNullOk(row) /\ ForeignKeysOk(row) /\ CheckConstraintsOk(row)

-----------------------------------------------------------------------------
(* Writes *)

NoPk == 0
FreePks == ConsultationIds \ DOMAIN consultations
\* The pk the database gives a new row.
NewPk == CHOOSE k \in FreePks : \A j \in FreePks : k <= j

Put(table, k, row) == [j \in DOMAIN table \cup {k} |-> IF j = k THEN row ELSE table[j]]

\* How a request ended: "ok" or the error raised, and what that names: the
\* constraints of an IntegrityError, the fields of a ValidationError, the rows
\* a ProtectedError protects, the consultations a deletion took with it.
Result(op, id, result, detail) ==
    [op |-> op, id |-> id, result |-> result, detail |-> detail]

\* The constraints a row breaks.
Violations(row) ==
    (IF NotNullOk(row) THEN {} ELSE {"not_null"})
    \cup (IF ForeignKeysOk(row) THEN {} ELSE {"foreign_key"})
    \cup (IF if_referral_suggested(row) THEN {} ELSE {"if_referral_suggested"})
    \cup (IF if_admitted(row) THEN {} ELSE {"if_admitted"})

\* The fields whose validators refuse the row.
InvalidFields(row) ==
    (IF SuggestionValid(row.suggestion) THEN {} ELSE {"suggestion"})
    \cup (IF HeightValid(row.height) THEN {} ELSE {"height"})
    \cup (IF WeightValid(row.weight) THEN {} ELSE {"weight"})
    \cup (IF CpkMbValid(row.cpk_mb) THEN {} ELSE {"cpk_mb"})
    \cup (IF CuffPressureValid(row.cuff_pressure) THEN {} ELSE {"cuff_pressure"})
    \cup (IF EttTtValid(row.ett_tt) THEN {} ELSE {"ett_tt"})
    \cup (IF LinesValid(row.lines) THEN {} ELSE {"lines"})

\* save() as it was before the block in its docstring was retired: a new
\* consultation, or one with a referral target, moved the patient.
PatientsAfterSave_moving(pk, row) ==
    IF pk = NoPk \/ row.referred_to # NULL
    THEN [patients EXCEPT ![row.patient] =
              IF row.referred_to # NULL THEN row.referred_to ELSE row.facility]
    ELSE patients

\* save(): the patient record is not touched.
PatientsAfterSave(pk, row) == patients

\* A write that leaves the admission pair of the row as it was.
StoredRow_partial(pk, row) ==
    IF pk \in DOMAIN consultations
    THEN [row EXCEPT !.admitted = consultations[pk].admitted,
                     !.admission_date = consultations[pk].admission_date]
    ELSE [row EXCEPT !.admitted = FALSE, !.admission_date = NULL]

\* The row the table holds after an accepted write: every field as written.
StoredRow(pk, row) == row

\* PatientConsultation.save(): super().save(), an INSERT when the instance has
\* no pk yet and an UPDATE of the whole row otherwise, under the table's
\* constraints.  No validator runs here.
Save(pk, row) ==
    /\ pk = NoPk => FreePks # {}
    /\ pk # NoPk => pk \in DOMAIN consultations
    /\ LET id == IF pk = NoPk THEN NewPk ELSE pk IN
       IF DbAccepts(row)
       THEN /\ consultations' = Put(consultations, id, StoredRow(pk, row))
            /\ patients' = PatientsAfterSave(pk, row)
            /\ outcome' = Result("save", id, "ok", {})
       ELSE /\ outcome' = Result("save", pk, "IntegrityError", Violations(row))
            /\ UNCHANGED <<consultations, patients>>
    /\ UNCHANGED <<facilities, users, csvIn, csvOut>>

\* A write through validation (the serializer's is_valid, then save()): the
\* field validators first, and save() only for a row that passes them.
ValidatedSave(pk, row) ==
    /\ pk = NoPk => FreePks # {}
    /\ pk # NoPk => pk \in DOMAIN consultations
    /\ LET id == IF pk = NoPk THEN NewPk ELSE pk IN
       IF ~FieldsValid(row)
       THEN /\ outcome' = Result("validated_save", pk, "ValidationError", InvalidFields(row))
            /\ UNCHANGED <<consultations, patients>>
       ELSE IF DbAccepts(row)
       THEN /\ consultations' = Put(consultations, id, StoredRow(pk, row))
            /\ patients' = PatientsAfterSave(pk, row)
            /\ outcome' = Result("validated_save", id, "ok", {})
       ELSE /\ outcome' = Result("validated_save", pk, "IntegrityError", Violations(row))
            /\ UNCHANGED <<consultations, patients>>
    /\ UNCHANGED <<facilities, users, csvIn, csvOut>>

-----------------------------------------------------------------------------
(* Deletions: what each foreign key's on_delete does to the consultations *)

Restrict(table, keep) == [k \in keep |-> table[k]]

\* on_delete=CASCADE: the rows that go with the deleted record.
CASCADE(field, id) == {k \in DOMAIN consultations : consultations[k][field] = id}
\* on_delete=PROTECT: the rows that forbid the deletion.
PROTECT(field, id) == {k \in DOMAIN consultations : consultations[k][field] = id}
\* on_delete=SET_NULL on one row.
SET_NULL(row, field, id) == IF row[field] = id THEN [row EXCEPT ![field] = NULL] ELSE row

PatientCascade(p) == CASCADE("patient", p)
FacilityCascade(f) == CASCADE("facility", f)

\* A referred_to that does not protect its target.
ReferredToProtect_none(f) == {}
ReferredToProtect(f) == PROTECT("referred_to", f)

\* User references that cascade instead of being nulled.
ConsultationsAfterUserDelete_cascade(u) ==
    Restrict(consultations,
             {k \in DOMAIN consultations :
                  /\ consultations[k].assigned_to # u
                  /\ consultations[k].created_by # u
                  /\ consultations[k].last_edited_by # u})
\* User references of which last_edited_by is left as it was.
ConsultationsAfterUserDelete_partial(u) ==
    [k \in DOMAIN consultations |->
        SET_NULL(SET_NULL(consultations[k], "assigned_to", u), "created_by", u)]
\* assigned_to, created_by and last_edited_by: on_delete=SET_NULL
ConsultationsAfterUserDelete(u) ==
    [k \in DOMAIN consultations |->
        SET_NULL(SET_NULL(SET_NULL(consultations[k], "assigned_to", u),
                          "created_by", u),
                 "last_edited_by", u)]

\* The patient's own facility reference (PatientRegistration.facility, outside
\* this file) is nulled when that facility goes.
PatientsAfterFacilityDelete(f) ==
    [p \in DOMAIN patients |-> IF patients[p] = f THEN NULL ELSE patients[p]]

DeletePatient(p) ==
    /\ p \in DOMAIN patients
    /\ patients' = Restrict(patients, DOMAIN patients \ {p})
    /\ consultations' = Restrict(consultations, DOMAIN consultations \ PatientCascade(p))
    /\ outcome' = Result("delete_patient", p, "ok", PatientCascade(p))
    /\ UNCHANGED <<facilities, users, csvIn, csvOut>>

DeleteFacility(f) ==
    /\ f \in facilities
    /\ IF ReferredToProtect(f) # {}
       THEN /\ outcome' = Result("delete_facility", f, "ProtectedError", ReferredToProtect(f))
            /\ UNCHANGED <<patients, facilities, consultations>>
       ELSE /\ facilities' = facilities \ {f}
            /\ consultations' =
                   Restrict(consultations, DOMAIN consultations \ FacilityCascade(f))
            /\ patients' = PatientsAfterFacilityDelete(f)
            /\ outcome' = Result("delete_facility", f, "ok", FacilityCascade(f))
    /\ UNCHANGED <<users, csvIn, csvOut>>

DeleteUser(u) ==
    /\ u \in users
    /\ users' = users \ {u}
    /\ consultations' = ConsultationsAfterUserDelete(u)
    /\ outcome' = Result("delete_user", u, "ok", {})
    /\ UNCHANGED <<patients, facilities, csvIn, csvOut>>

CreatePatient(p, f) ==
    /\ p \notin DOMAIN patients
    /\ f \in facilities \cup {NULL}
    /\ patients' = Put(patients, p, f)
    /\ outcome' = Result("create_patient", p, "ok", {})
    /\ UNCHANGED <<facilities, users, consultations, csvIn, csvOut>>

CreateFacility(f) ==
    /\ f \notin facilities
    /\ facilities' = facilities \cup {f}
    /\ outcome' = Result("create_facility", f, "ok", {})
    /\ UNCHANGED <<patients, users, consultations, csvIn, csvOut>>

CreateUser(u) ==
    /\ u \notin users
    /\ users' = users \cup {u}
    /\ outcome' = Result("create_user", u, "ok", {})
    /\ UNCHANGED <<patients, facilities, consultations, csvIn, csvOut>>

-----------------------------------------------------------------------------
(* CSV export: each row's codes through the pretty-printers *)

CsvExportRow ==
    /\ Len(csvOut) < Len(csvIn)
    /\ LET r == csvIn[Len(csvOut) + 1] IN
       csvOut' = Append(csvOut,
                        [ category |-> CSV_MAKE_PRETTY_category(r.category),
                          suggestion |-> CSV_MAKE_PRETTY_suggestion(r.suggestion) ])
    /\ UNCHANGED <<patients, facilities, users, consultations, outcome, csvIn>>

-----------------------------------------------------------------------------
(* Submitted rows *)

Pks == DOMAIN consultations \cup {NoPk}

Date == "2020-07-01"

\* Writes for one patient that vary the suggestion and the referral target,
\* and writes for another that vary the admission pair; the rest at its default.
ReferralRows ==
    { [DefaultRow("p1", f, s) EXCEPT !.referred_to = r] :
        f \in FacilityIds,
        s \in {SuggestionChoices_A, SuggestionChoices_R}, r \in FacilityIds \cup {NULL} }
AdmissionRows ==
    { [DefaultRow("p2", "f2", SuggestionChoices_HI)
          EXCEPT !.admitted = a, !.admission_date = d] :
        a \in BOOLEAN, d \in {NULL, Date} }
WriteRows == ReferralRows \cup AdmissionRows

InitTables ==
    /\ patients = ("p1" :> "f1" @@ "p2" :> NULL)
    /\ facilities = FacilityIds
    /\ users = UserIds
    /\ consultations = <<>>
    /\ outcome = Result("none", NoPk, "ok", {})

Init ==
    /\ InitTables
    /\ csvIn = <<>>
    /\ csvOut = <<>>

Next == \E pk \in Pks, row \in WriteRows : Save(pk, row)

Spec == Init /\ [][Next]_vars

-----------------------------------------------------------------------------
(* Writes of the measurements and of lines, with and without validation *)

Measurement(low, high) == {Some(low - 1), Some(low), Some(high), Some(high + 1)}
AtLeast(low) == {Some(low - 1), Some(low)}

ConformingEntry == {"start_date", "type", "site"}
EntryWithoutSite == {"start_date", "type"}
EntryWithOtherType == {"start_date", "type", "site", "other_type"}
LineEntries == {ConformingEntry, EntryWithoutSite, EntryWithOtherType}
LinesOfLength(n) == [1..n -> LineEntries]
LinesInputs == UNION {LinesOfLength(n) : n \in 0..MaxLines}

BaseRow == DefaultRow("p1", "f1", SuggestionChoices_A)

\* One field away from the defaults at a time, and one row with two.
ClinicalRows ==
    {BaseRow, [BaseRow EXCEPT !.suggestion = "XX"]}
    \cup {[BaseRow EXCEPT !.height = v] : v \in AtLeast(HeightMin)}
    \cup {[BaseRow EXCEPT !.weight = v] : v \in AtLeast(WeightMin)}
    \cup {[BaseRow EXCEPT !.cpk_mb = v] : v \in Measurement(CpkMbMin, CpkMbMax)}
    \cup {[BaseRow EXCEPT !.cuff_pressure = v] : v \in AtLeast(CuffPressureMin)}
    \cup {[BaseRow EXCEPT !.ett_tt = v] : v \in Measurement(EttTtMin, EttTtMax)}
    \cup {[BaseRow EXCEPT !.lines = l] : l \in LinesInputs}
    \cup {[BaseRow EXCEPT !.cpk_mb = Some(CpkMbMax + 1), !.ett_tt = Some(EttTtMin - 1)]}

\* The writes of this part go to one consultation: created once, then updated.
ClinicalPks == IF DOMAIN consultations = {} THEN {NoPk} ELSE DOMAIN consultations

NextValidate ==
    \/ \E pk \in ClinicalPks, row \in ClinicalRows : Save(pk, row)
    \/ \E pk \in ClinicalPks, row \in ClinicalRows : ValidatedSave(pk, row)

SpecValidate == Init /\ [][NextValidate]_vars

-----------------------------------------------------------------------------
(* The whole life of the tables: writes, and deletions and re-creations of  *)
(* patients, facilities and users                                          *)

\* Who holds which user reference: <<assigned_to, created_by, last_edited_by>>.
UserRefInputs == { <<"u1", "u2", "u1">>, <<"u2", "u2", NULL>> }

PlainRows ==
    {DefaultRow(p, f, SuggestionChoices_A) : p \in PatientIds, f \in FacilityIds}
ReferredRows ==
    { [DefaultRow("p1", f, SuggestionChoices_R) EXCEPT !.referred_to = r] :
        f \in FacilityIds, r \in FacilityIds }
StaffedRows ==
    { [DefaultRow("p1", "f1", SuggestionChoices_R)
          EXCEPT !.referred_to = "f2", !.admitted = TRUE, !.admission_date = Date,
                 !.assigned_to = t[1], !.created_by = t[2], !.last_edited_by = t[3]] :
        t \in UserRefInputs }
LifecycleRows == PlainRows \cup ReferredRows \cup StaffedRows

NextLifecycle ==
    \/ \E pk \in Pks, row \in LifecycleRows : Save(pk, row)
    \/ \E p \in PatientIds : DeletePatient(p)
    \/ \E f \in FacilityIds : DeleteFacility(f)
    \/ \E u \in UserIds : DeleteUser(u)
    \/ \E p \in PatientIds : CreatePatient(p, NULL)
    \/ \E f \in FacilityIds : CreateFacility(f)
    \/ \E u \in UserIds : CreateUser(u)

SpecLifecycle == Init /\ [][NextLifecycle]_vars

-----------------------------------------------------------------------------
(* The CSV export of a batch of rows *)

SuggestionCodes ==
    {SuggestionChoices_HI, SuggestionChoices_A, SuggestionChoices_R,
     SuggestionChoices_OP, SuggestionChoices_DC, "XX", NULL}
CategoryCodes == {"Mild", "Moderate", "Severe", "Critical", NULL}
CsvRows == [category : CategoryCodes, suggestion : SuggestionCodes]
CsvInputs == UNION {[1..n -> CsvRows] : n \in 0..MaxCsvRows}

InitCsv ==
    /\ InitTables
    /\ csvIn \in CsvInputs
    /\ csvOut = <<>>

NextCsv == CsvExportRow

SpecCsv == InitCsv /\ [][NextCsv]_vars

-----------------------------------------------------------------------------
(* Properties of writes, under Spec *)

\* The step is save() of `row` on the instance with primary key pk.
IsSave(pk, row) ==
    /\ IF pk = NoPk THEN outcome'.id \notin DOMAIN consultations ELSE outcome'.id = pk
    /\ Save(pk, row)
SaveOps == {"save", "validated_save"}
Rejected(o) == o.op \in SaveOps /\ o.result # "ok"
Accepted(o) == o.op \in SaveOps /\ o.result = "ok"

ReferralWithoutTarget(row) ==
    row.suggestion = SuggestionChoices_R /\ row.referred_to = NULL
AdmittedWithoutDate(row) ==
    row.admitted = TRUE /\ row.admission_date = NULL

RowsWithoutTarget == {row \in WriteRows : ReferralWithoutTarget(row)}
RowsWithoutDate == {row \in WriteRows : AdmittedWithoutDate(row)}
RowsOfDefaults ==
    {row \in WriteRows : row = DefaultRow(row.patient, row.facility, row.suggestion)}

C1_Stored ==
    \A k \in DOMAIN consultations :
        consultations[k].suggestion = SuggestionChoices_R
            => consultations[k].referred_to # NULL
C1_Write ==
    /\ \A pk \in Pks, row \in RowsWithoutTarget :
          IsSave(pk, row) =>
              /\ outcome'.result = "IntegrityError"
              /\ "if_referral_suggested" \in outcome'.detail
              /\ consultations' = consultations
    /\ "if_referral_suggested" \in outcome'.detail =>
          \E pk \in Pks, row \in RowsWithoutTarget : IsSave(pk, row)

\* C1: every stored row whose suggestion is REFERRAL has a referred_to; a write
\* of REFERRAL with a null referred_to is rejected under if_referral_suggested
\* and stores nothing; a write of any other row is not refused by if_referral_suggested.
C1_ReferralHasTarget == []C1_Stored /\ [][C1_Write]_vars

\* A referral row is stored and the last write was refused for want of a target.
C1_Witness ==
    /\ \E k \in DOMAIN consultations :
           /\ consultations[k].suggestion = SuggestionChoices_R
           /\ consultations[k].referred_to # NULL
    /\ \E k \in DOMAIN consultations :
           /\ consultations[k].suggestion # SuggestionChoices_R
           /\ consultations[k].referred_to = NULL
    /\ outcome.result = "IntegrityError"
    /\ outcome.detail = {"if_referral_suggested"}

C2_Stored ==
    \A k \in DOMAIN consultations :
        consultations[k].admitted = TRUE => consultations[k].admission_date # NULL
C2_Write ==
    /\ \A pk \in Pks, row \in RowsWithoutDate :
          IsSave(pk, row) =>
              /\ outcome'.result = "IntegrityError"
              /\ "if_admitted" \in outcome'.detail
              /\ consultations' = consultations
    /\ "if_admitted" \in outcome'.detail =>
          \E pk \in Pks, row \in RowsWithoutDate : IsSave(pk, row)
    /\ \A row \in RowsOfDefaults \ RowsWithoutTarget :
          IsSave(NoPk, row) =>
              (outcome'.result = "ok" /\ consultations'[outcome'.id] = row)

\* C2: every stored row with admitted = true has an admission_date; a write of
\* admitted = true with a null admission_date is rejected under if_admitted and
\* stores nothing; a row created with the field defaults is accepted.
C2_AdmittedHasDate == []C2_Stored /\ [][C2_Write]_vars

\* An admitted row with its date is stored, and the last write was refused
\* for want of an admission date.
C2_Witness ==
    /\ \E k \in DOMAIN consultations :
           consultations[k].admitted = TRUE /\ consultations[k].admission_date # NULL
    /\ \E k \in DOMAIN consultations :
           consultations[k] = DefaultRow("p2", "f2", SuggestionChoices_HI)
    /\ outcome.result = "IntegrityError"
    /\ outcome.detail = {"if_admitted"}

C3_Write ==
    \A pk \in Pks, row \in WriteRows :
        IsSave(pk, row) =>
            IF ReferralWithoutTarget(row) \/ AdmittedWithoutDate(row)
            THEN /\ Rejected(outcome')
                 /\ consultations' = consultations
            ELSE /\ Accepted(outcome')
                 /\ DOMAIN consultations' = DOMAIN consultations \cup {outcome'.id}
                 /\ pk # NoPk => outcome'.id = pk
                 /\ pk = NoPk => outcome'.id \notin DOMAIN consultations
                 /\ consultations'[outcome'.id] = row
                 /\ \A k \in DOMAIN consultations \ {outcome'.id} :
                        consultations'[k] = consultations[k]

\* C3: a write is all or nothing: a rejected save leaves the table exactly as
\* it was, an accepted save gives every field of that one row the written
\* value and touches no other row.
C3_AllOrNothing == [][C3_Write]_vars

\* Two rows are stored, one of them admitted, and the last request, an update
\* of one of them, was rejected.
C3_Witness ==
    /\ Cardinality(DOMAIN consultations) = 2
    /\ \E k \in DOMAIN consultations : consultations[k].admitted = TRUE
    /\ Rejected(outcome)
    /\ outcome.id \in DOMAIN consultations

C10_Write ==
    outcome'.op = "save" =>
        /\ patients' = patients
        /\ facilities' = facilities
        /\ users' = users
        /\ \A k \in DOMAIN consultations \ {outcome'.id} :
               k \in DOMAIN consultations' /\ consultations'[k] = consultations[k]

\* C10: a save, on creation or on update, with or without a referred_to,
\* changes only the consultation's own row; the patient's record, and with it
\* the patient's current facility, stays as it was.
C10_SaveLeavesPatient == [][C10_Write]_vars

\* A referral to f2 of a patient whose own facility is still f1 is stored, by
\* an accepted save, beside a consultation at f2.
C10_Witness ==
    /\ Accepted(outcome)
    /\ \E k \in DOMAIN consultations :
           /\ consultations[k].referred_to = "f2"
           /\ patients[consultations[k].patient] = "f1"
    /\ \E k \in DOMAIN consultations :
           /\ consultations[k].facility = "f2"
           /\ consultations[k].referred_to = NULL
           /\ patients[consultations[k].patient] # "f2"

-----------------------------------------------------------------------------
(* Properties of validation, under SpecValidate *)

\* The step is a validated write of `row` on the instance with primary key pk.
IsValidatedSave(pk, row) ==
    /\ IF pk = NoPk THEN outcome'.id \notin DOMAIN consultations ELSE outcome'.id = pk
    /\ ValidatedSave(pk, row)

Within(v, low, high) == v = None \/ (low <= v[1] /\ v[1] <= high)
NotNegative(v) == v = None \/ 0 <= v[1]

MeasurementsInBounds(row) ==
    /\ NotNegative(row.height)
    /\ NotNegative(row.weight)
    /\ Within(row.cpk_mb, 0, 100)
    /\ NotNegative(row.cuff_pressure)
    /\ Within(row.ett_tt, 3, 10)

MeasurementFields == {"height", "weight", "cpk_mb", "cuff_pressure", "ett_tt"}
RowsOutOfBounds == {row \in ClinicalRows : ~MeasurementsInBounds(row)}
RowsInBounds ==
    {row \in ClinicalRows :
        /\ MeasurementsInBounds(row)
        /\ row.suggestion = SuggestionChoices_A
        /\ row.lines = <<>>}

\* C4 as stated: no stored consultation holds an out-of-bounds measurement.
C4_NoStoredOutOfBounds ==
    \A k \in DOMAIN consultations : MeasurementsInBounds(consultations[k])

C4_Validated ==
    (outcome.op = "validated_save" /\ outcome.result = "ok")
        => MeasurementsInBounds(consultations[outcome.id])
C4_Write ==
    outcome'.op = "validated_save" =>
        /\ \/ /\ outcome'.result = "ValidationError"
              /\ outcome'.detail \cap MeasurementFields # {}
              /\ consultations' = consultations
           \/ \A pk \in ClinicalPks, row \in RowsOutOfBounds : ~IsValidatedSave(pk, row)
        /\ \A pk \in ClinicalPks, row \in RowsInBounds :
              \/ outcome'.result = "ok" /\ consultations'[outcome'.id] = row
              \/ ~IsValidatedSave(pk, row)
        /\ outcome'.detail \cap MeasurementFields # {} =>
              \E pk \in ClinicalPks, row \in RowsOutOfBounds : IsValidatedSave(pk, row)

\* C4 (amended): a write that goes through validation is rejected when cpk_mb
\* is outside [0,100], ett_tt outside [3,10], or height, weight or
\* cuff_pressure negative, and accepted at the boundary values and at null; so
\* a row just stored by a validated write holds no out-of-bounds measurement.
C4_ValidatedWriteInBounds == []C4_Validated /\ [][C4_Write]_vars

\* A validated write was refused for its ett_tt, and the row it would have
\* replaced still holds the boundary value ett_tt = 3.
C4_Witness ==
    /\ outcome.op = "validated_save"
    /\ outcome.result = "ValidationError"
    /\ outcome.detail = {"ett_tt"}
    /\ outcome.id \in DOMAIN consultations
    /\ consultations[outcome.id].ett_tt = Some(3)

LinesConform(lines) ==
    \A i \in 1..Len(lines) : {"start_date", "type", "site"} \subseteq lines[i]
RowsOfBadLines == {row \in ClinicalRows : ~LinesConform(row.lines)}
RowsOfGoodLines ==
    {row \in ClinicalRows :
        /\ LinesConform(row.lines)
        /\ MeasurementsInBounds(row)
        /\ row.suggestion = SuggestionChoices_A}

\* C6 as stated: every element of lines in every stored consultation conforms.
C6_NoStoredBadLines ==
    \A k \in DOMAIN consultations : LinesConform(consultations[k].lines)

C6_Validated ==
    (outcome.op = "validated_save" /\ outcome.result = "ok")
        => LinesConform(consultations[outcome.id].lines)
C6_Write ==
    outcome'.op = "validated_save" =>
        /\ \/ /\ outcome'.result = "ValidationError"
              /\ "lines" \in outcome'.detail
              /\ consultations' = consultations
           \/ \A pk \in ClinicalPks, row \in RowsOfBadLines : ~IsValidatedSave(pk, row)
        /\ \A pk \in ClinicalPks, row \in RowsOfGoodLines :
              \/ outcome'.result = "ok" /\ consultations'[outcome'.id] = row
              \/ ~IsValidatedSave(pk, row)
        /\ "lines" \in outcome'.detail =>
              \E pk \in ClinicalPks, row \in RowsOfBadLines : IsValidatedSave(pk, row)

\* C6 (amended): a write that goes through validation is rejected when any
\* entry of lines lacks a required key, and accepted when every entry conforms
\* (the empty list included); so the lines of a row just stored by a validated
\* write all conform.
C6_ValidatedWriteConforms == []C6_Validated /\ [][C6_Write]_vars

\* A validated write has stored two conforming entries.
C6_Witness ==
    /\ outcome.op = "validated_save"
    /\ outcome.result = "ok"
    /\ Len(consultations[outcome.id].lines) = 2

-----------------------------------------------------------------------------
(* Properties of deletions, under SpecLifecycle *)

Removed(k) == k \in DOMAIN consultations /\ k \notin DOMAIN consultations'

C7_Targets ==
    \A k \in DOMAIN consultations :
        /\ consultations[k].suggestion = SuggestionChoices_R
               => consultations[k].referred_to # NULL
        /\ consultations[k].referred_to # NULL
               => consultations[k].referred_to \in facilities
C7_Delete ==
    outcome'.op = "delete_facility" =>
        /\ (\E k \in DOMAIN consultations : consultations[k].referred_to = outcome'.id)
              => /\ outcome'.result = "ProtectedError"
                 /\ facilities' = facilities
                 /\ consultations' = consultations
                 /\ patients' = patients
        /\ \A k \in DOMAIN consultations' :
              consultations'[k].referred_to = consultations[k].referred_to

\* C7: the deletion of a facility that some consultation is referred to is
\* refused and changes nothing; so a stored referral always names a facility
\* that exists, and no facility deletion alters the referred_to of a row.
C7_ReferralTargetProtected == []C7_Targets /\ [][C7_Delete]_vars

\* The deletion of f2 has just been refused: a referral to f2 is stored.
C7_Witness ==
    /\ outcome.op = "delete_facility"
    /\ outcome.result = "ProtectedError"
    /\ outcome.id = "f2"
    /\ "f2" \in facilities
    /\ \E k \in outcome.detail :
           /\ consultations[k].suggestion = SuggestionChoices_R
           /\ consultations[k].referred_to = "f2"

C8_ByPatientOnly ==
    \A k \in DOMAIN consultations :
        Removed(k) =>
            outcome'.op = "delete_patient" /\ outcome'.id = consultations[k].patient

\* C8 as stated: a consultation is removed only by the deletion of its patient.
C8_OnlyPatientDeletionRemoves == [][C8_ByPatientOnly]_vars

C8_Cascade ==
    /\ \A k \in DOMAIN consultations :
          Removed(k) =>
              \/ outcome'.op = "delete_patient" /\ outcome'.id = consultations[k].patient
              \/ /\ outcome'.op = "delete_facility"
                 /\ outcome'.result = "ok"
                 /\ outcome'.id = consultations[k].facility
    /\ outcome'.op = "delete_patient" =>
          \A k \in DOMAIN consultations :
              IF consultations[k].patient = outcome'.id
              THEN Removed(k)
              ELSE k \in DOMAIN consultations' /\ consultations'[k] = consultations[k]
    /\ (outcome'.op = "delete_facility" /\ outcome'.result = "ok") =>
          \A k \in DOMAIN consultations :
              IF consultations[k].facility = outcome'.id
              THEN Removed(k)
              ELSE k \in DOMAIN consultations' /\ consultations'[k] = consultations[k]
    /\ outcome'.op = "delete_user" => DOMAIN consultations' = DOMAIN consultations

\* C8 (amended): a consultation is removed by cascade only when its patient or
\* its facility is deleted: deleting a patient removes exactly that patient's
\* consultations, deleting a facility that no consultation is referred to
\* removes exactly the consultations at that facility, and deleting a user
\* removes none.
C8_CascadeFromPatientOrFacility == [][C8_Cascade]_vars

\* p1 has just been deleted and has taken a consultation with it, while a
\* consultation of p2 is still there.
C8_Witness ==
    /\ outcome.op = "delete_patient"
    /\ outcome.id = "p1"
    /\ outcome.detail # {}
    /\ \E k \in DOMAIN consultations : consultations[k].patient = "p2"

C9_Integrity ==
    \A k \in DOMAIN consultations :
        LET row == consultations[k] IN
        /\ row.patient \in DOMAIN patients
        /\ row.facility \in facilities
        /\ row.referred_to = NULL \/ row.referred_to \in facilities
        /\ row.assigned_to = NULL \/ row.assigned_to \in users
        /\ row.created_by = NULL \/ row.created_by \in users
        /\ row.last_edited_by = NULL \/ row.last_edited_by \in users
        /\ row.suggestion = SuggestionChoices_R => row.referred_to # NULL
        /\ row.admitted = TRUE => row.admission_date # NULL

UserFields == {"assigned_to", "created_by", "last_edited_by"}
C9_UserDelete ==
    outcome'.op = "delete_user" =>
        /\ DOMAIN consultations' = DOMAIN consultations
        /\ \A k \in DOMAIN consultations :
              \A field \in DOMAIN consultations[k] :
                  consultations'[k][field] =
                      IF field \in UserFields /\ consultations[k][field] = outcome'.id
                      THEN NULL
                      ELSE consultations[k][field]

\* C9: every stored consultation refers to a patient and a facility that
\* exist, and to a referral target and users that are null or exist; deleting
\* a user nulls exactly the references to that user and leaves every row, and
\* both check constraints, in place.
C9_ReferentialIntegrity == []C9_Integrity /\ [][C9_UserDelete]_vars

\* u1 has just been deleted: an admitted referral that u1 was assigned to and
\* had last edited keeps its creator u2, its target and its admission date.
C9_Witness ==
    /\ outcome.op = "delete_user"
    /\ outcome.id = "u1"
    /\ \E k \in DOMAIN consultations :
           /\ consultations[k].assigned_to = NULL
           /\ consultations[k].created_by = "u2"
           /\ consultations[k].last_edited_by = NULL
           /\ consultations[k].suggestion = SuggestionChoices_R
           /\ consultations[k].referred_to = "f2"
           /\ consultations[k].admitted = TRUE
           /\ consultations[k].admission_date = Date

-----------------------------------------------------------------------------
(* Properties of the export, under SpecCsv *)

SuggestionLabel(code) ==
    CASE code = "HI" -> "HOME ISOLATION"
      [] code = "A" -> "ADMISSION"
      [] code = "R" -> "REFERRAL"
      [] code = "OP" -> "OP CONSULTATION"
      [] code = "DC" -> "DOMICILIARY CARE"
      [] OTHER -> "-"

CategoryLabelIs(code, label) ==
    IF \E i \in 1..Len(CATEGORY_CHOICES) : CATEGORY_CHOICES[i][1] = code
    THEN \E i \in 1..Len(CATEGORY_CHOICES) :
             CATEGORY_CHOICES[i][1] = code /\ CATEGORY_CHOICES[i][2] = label
    ELSE label = "-"

\* C5: the two pretty-printers answer for every code: the suggestion printer
\* gives the label SUGGESTION_CHOICES pairs with a known code, the category
\* printer the label of the category table, and both give "-" for any other
\* code, null included.
C5_PrettyPrinters ==
    /\ Len(csvOut) <= Len(csvIn)
    /\ \A i \in 1..Len(csvOut) :
          /\ csvOut[i].suggestion = SuggestionLabel(csvIn[i].suggestion)
          /\ CategoryLabelIs(csvIn[i].category, csvOut[i].category)

\* A referral of a known category and a row of two unknown codes, one of them
\* null, have both been exported.
C5_Witness ==
    /\ Len(csvOut) = 2
    /\ csvIn[1].suggestion = SuggestionChoices_R
    /\ csvOut[1].suggestion = "REFERRAL"
    /\ csvIn[1].category = "Severe"
    /\ csvOut[1].category = "Category-C"
    /\ csvIn[2].suggestion = NULL
    /\ csvOut[2].suggestion = "-"
    /\ csvIn[2].category = "Critical"
    /\ csvOut[2].category = "-"

=============================================================================
